---- MODULE Spec2Model ----
(***************************************************************************)
(* Job orchestration of the image service: intake (backend/app.py),        *)
(* intent classification (backend/utils.py), the Redis state store and     *)
(* dispatch queue, the worker pool (backend/worker.py) and the ComfyUI     *)
(* adapter (backend/comfy_client.py).                                      *)
(*                                                                         *)
(* Conventions.  An Optional[T] value is None == <<>> or Some(x) == <<x>>. *)
(* A Python str is a sequence of one-character strings; a code point       *)
(* outside ASCII is written by its name ("U+00F3").  A Redis key that is   *)
(* absent reads as None (rds.get returns None).                            *)
(***************************************************************************)
EXTENDS Integers, Sequences, FiniteSets, TLC

\* ------------------------------------------------------------------ bounds

\* Number of job ids gen_job_id hands out in a run (requests accepted).
MaxJobs == 2

\* ------------------------------------------------------------ small helpers

None == <<>>
Some(x) == <<x>>

Range(s) == { s[i] : i \in 1..Len(s) }

\* ------------------------------------------------------------------ strings

\* The whitespace of the model's alphabet (str.strip() and str.isspace()).
Whitespace == { " ", "\t", "\n", "\r", "\f" }

LowerLetters == << "a","b","c","d","e","f","g","h","i","j","k","l","m",
                   "n","o","p","q","r","s","t","u","v","w","x","y","z" >>
UpperLetters == << "A","B","C","D","E","F","G","H","I","J","K","L","M",
                   "N","O","P","Q","R","S","T","U","V","W","X","Y","Z" >>

IndexIn(c, letters) ==
  IF \E i \in 1..Len(letters) : letters[i] = c
  THEN CHOOSE i \in 1..Len(letters) : letters[i] = c
  ELSE 0

\* str.lower() / str.upper(), one character at a time.
LowerChar(c) == IF IndexIn(c, UpperLetters) > 0
                THEN LowerLetters[IndexIn(c, UpperLetters)] ELSE c
UpperChar(c) == IF IndexIn(c, LowerLetters) > 0
                THEN UpperLetters[IndexIn(c, LowerLetters)] ELSE c

Lower(s) == [ i \in 1..Len(s) |-> LowerChar(s[i]) ]
Upper(s) == [ i \in 1..Len(s) |-> UpperChar(s[i]) ]

\* str.strip(): drop the leading and the trailing whitespace.
RECURSIVE LStrip(_)
LStrip(s) == IF s # <<>> /\ Head(s) \in Whitespace THEN LStrip(Tail(s)) ELSE s

RECURSIVE RStrip(_)
RStrip(s) == IF s # <<>> /\ s[Len(s)] \in Whitespace
             THEN RStrip(SubSeq(s, 1, Len(s) - 1)) ELSE s

Strip(s) == RStrip(LStrip(s))

\* kw in p
Contains(p, kw) ==
  \E i \in 1..(Len(p) - Len(kw) + 1) : SubSeq(p, i, i + Len(kw) - 1) = kw

\* ------------------------------------------------- backend/utils.py: classifier

edit_keywords ==
  << << "e","d","i","t" >>,
     << "r","e","m","o","v","e" >>,
     << "e","r","a","s","e" >>,
     << "d","e","l","e","t","e" >>,
     << "c","h","a","n","g","e" >>,
     << "f","i","x" >>,
     << "r","e","p","l","a","c","e" >>,
     << "a","d","d"," " >>,
     << "a","d","d"," ","s","o","m","e","t","h","i","n","g" >>,
     << "m","a","k","e"," ","h","e","r" >>,
     << "m","a","k","e"," ","h","i","m" >>,
     << "r","e","m","o","v","e"," ","t","e","x","t" >>,
     << "x","U+00F3","a" >>,
     << "x","o","U+00E1" >>,
     << "s","U+1EED","a" >>,
     << "c","h","U+1EC9","n","h" >>
  >>

\* Mutant of _fallback_rule: the prompt is searched as typed, without
\* .lower().
_fallback_rule_NoLower(prompt) ==
  IF \E k \in 1..Len(edit_keywords) : Contains(prompt, edit_keywords[k])
  THEN "EDIT" ELSE "NEW"

\* OllamaModeClassifier._fallback_rule
_fallback_rule(prompt) ==
  LET p == Lower(prompt)
  IN  IF \E k \in 1..Len(edit_keywords) : Contains(p, edit_keywords[k])
      THEN "EDIT" ELSE "NEW"

M_NEW  == << "N","E","W" >>
M_EDIT == << "E","D","I","T" >>

\* What the external call (lines 80-97) and the parse of its text (lines
\* 99-114) can come to.  kind "json": the fragment parsed to a dict whose
\* "mode" entry is the text mode_val; kind "mode_not_str": to a dict whose
\* "mode" entry is no text (.strip() raises, line 112 catches).
ClassifierOutcomes ==
  { [kind |-> k, mode_val |-> <<>>] :
      k \in { "http_error", "timeout", "transport_error", "no_json", "bad_json",
              "mode_not_str" } }
  \cup
  { [kind |-> "json", mode_val |-> v] :
      v \in { M_NEW,
              << " ","e","d","i","t","\n" >>,
              << "D","E","L","E","T","E" >> } }

\* Line 33: not prompt or not prompt.strip(): the classifier answers without
\* the external call.
NoCall(prompt) == prompt = <<>> \/ Strip(prompt) = <<>>

\* Mutant of classify_mode: a failed external call is answered NEW, without
\* the fallback rule.
classify_mode_NewOnFailure(prompt, outcome) ==
  IF NoCall(prompt) THEN "NEW"
  ELSE IF outcome.kind \in { "http_error", "timeout", "transport_error" } THEN "NEW"
  ELSE IF outcome.kind \in { "no_json", "bad_json", "mode_not_str" }
       THEN _fallback_rule(prompt)
  ELSE LET mode_val == Upper(Strip(outcome.mode_val))
       IN  IF mode_val = M_NEW THEN "NEW"
           ELSE IF mode_val = M_EDIT THEN "EDIT"
           ELSE _fallback_rule(prompt)

\* Mutant of classify_mode: the parse of lines 100-114 is not guarded, and
\* what it raises reaches the caller.
classify_mode_Unguarded(prompt, outcome) ==
  IF NoCall(prompt) THEN "NEW"
  ELSE IF outcome.kind \in { "http_error", "timeout", "transport_error", "no_json" }
       THEN _fallback_rule(prompt)
  ELSE IF outcome.kind \in { "bad_json", "mode_not_str" } THEN "raised"
  ELSE LET mode_val == Upper(Strip(outcome.mode_val))
       IN  IF mode_val = M_NEW THEN "NEW"
           ELSE IF mode_val = M_EDIT THEN "EDIT"
           ELSE _fallback_rule(prompt)

\* Mutant of classify_mode: the mode value is compared as it came, without
\* .strip().upper().
classify_mode_Raw(prompt, outcome) ==
  IF NoCall(prompt) THEN "NEW"
  ELSE IF outcome.kind # "json" THEN _fallback_rule(prompt)
  ELSE IF outcome.mode_val = M_NEW THEN "NEW"
  ELSE IF outcome.mode_val = M_EDIT THEN "EDIT"
  ELSE _fallback_rule(prompt)

\* OllamaModeClassifier.classify_mode, given the outcome of the external call.
classify_mode(prompt, outcome) ==
  IF NoCall(prompt) THEN "NEW"
  ELSE IF outcome.kind \in { "http_error", "timeout", "transport_error" }
       THEN _fallback_rule(prompt)
  ELSE IF outcome.kind = "no_json" THEN _fallback_rule(prompt)
  ELSE IF outcome.kind \in { "bad_json", "mode_not_str" } THEN _fallback_rule(prompt)
  ELSE LET mode_val == Upper(Strip(outcome.mode_val))
       IN  IF mode_val = M_NEW THEN "NEW"
           ELSE IF mode_val = M_EDIT THEN "EDIT"
           ELSE _fallback_rule(prompt)

\* ------------------------------------------------------------------ inputs

Users    == { "u1", "u2" }
\* generate() calls are taken one at a time: a call runs against the workers,
\* two calls do not overlap.
Requests == { "r1" }
Workers  == { "w1", "w2" }

P_Empty == <<>>
P_Blank == << " ", "\t" >>
P_Cat   == << "a"," ","c","a","t" >>
P_Fix   == << "F","i","x"," ","i","t" >>

Prompts == { P_Empty, P_Blank, P_Cat, P_Fix }

\* GenerateRequest.mode: Optional[Literal["NEW", "EDIT"]]
RequestModes == { None, Some("NEW"), Some("EDIT") }

JobIds == 1..MaxJobs

\* ------------------------------------------------------------------- state

VARIABLES
  jobs,        \* State Store, keys job:{job_id}: job_id -> None | Some(record)
  last_image,  \* State Store, keys last_image:{user_id}: user -> None | Some(url)
  queue,       \* the Redis list image_jobs; its head is the left end
  next_id,     \* the next token gen_job_id returns
  req,         \* each generate() call in flight: position and locals
  wk,          \* each worker_loop task: position and locals
  trail,       \* history: per job, the pops of its entry, the writes of its
               \* record and its writes of a last_image key
  push_order,  \* history: job ids in the order they were appended
  pop_order,   \* history: job ids in the order they were popped
  last_done    \* history: user -> None | Some(url), the image of the user's
               \* last job to have reached done

vars == << jobs, last_image, queue, next_id, req, wk, trail, push_order, pop_order,
           last_done >>

\* The JSON value stored under job:{job_id}.
JobRecord(status, image_url, error_message) ==
  [ status |-> status, image_url |-> image_url, error_message |-> error_message ]

\* job_data, the queue entry (app.py lines 51-56).
JobData(job_id, user_id, prompt, mode) ==
  [ job_id |-> job_id, user_id |-> user_id, prompt |-> prompt, mode |-> mode ]

\* A generate() call: pc, the request body (user_id, prompt, mode_in), the
\* locals mode, last_img, job_id and job_data, the response (http), and as
\* history the lookups of last_image:{user_id}, the calls of the classifier,
\* the external calls the classifier made (posts), what the external call
\* came to (outcome) and the decision its response carried.
ReqIdle ==
  [ pc |-> "idle", user_id |-> "u1", prompt |-> <<>>, mode_in |-> None,
    mode |-> None, last_img |-> None, job_id |-> 0, job_data |-> None, http |-> 0,
    lookups |-> 0, cls_calls |-> 0, posts |-> 0, outcome |-> None,
    decision |-> None ]

\* A worker_loop task: pc and the locals of process_job; as history, queued:
\* the length of the list when the task's entry was popped (kept until the
\* task's first write).
WkIdle ==
  [ pc |-> "brpop", job_data |-> None, last_img |-> None, staged |-> None,
    image_url |-> None, err |-> None, queued |-> 0 ]

TrailNone == [ pops |-> 0, writes |-> 0, ptr |-> 0 ]

\* An empty store, no call in flight, every task at its first BRPOP; ids are
\* the job ids the run can hand out.
InitOf(ids) ==
  /\ jobs = [ j \in ids |-> None ]
  /\ last_image = [ u \in Users |-> None ]
  /\ queue = <<>>
  /\ next_id = 1
  /\ req = [ r \in Requests |-> ReqIdle ]
  /\ wk = [ w \in Workers |-> WkIdle ]
  /\ trail = [ j \in ids |-> TrailNone ]
  /\ push_order = <<>>
  /\ pop_order = <<>>
  /\ last_done = [ u \in Users |-> None ]

Init == InitOf(JobIds)

\* ------------------------------------------------- backend/app.py: generate

\* The calls that may still take a job id.
Pending == { r \in Requests : req[r].pc \in { "resolve", "create" } }

\* Mutant of PromptRejected: the strip() is left out.
PromptRejected_NoStrip(prompt) == prompt = <<>>

\* Line 30: not req.prompt.strip()
PromptRejected(prompt) == Strip(prompt) = <<>>

\* user_id is an opaque string, used only as part of the key
\* last_image:{user_id} and copied into the entry: which user is called what
\* changes nothing, and the user of the first call is called u1.
FirstNamed(user_id) == next_id = 1 => user_id = "u1"

\* A POST /generate arrives with its body (GenerateRequest); lines 30-33:
\* raise HTTPException(status_code=400), or go on.
generate_receive(r, user_id, prompt, mode_in) ==
  /\ req[r].pc = "idle"
  /\ (next_id - 1) + Cardinality(Pending) < Cardinality(DOMAIN jobs)
  /\ FirstNamed(user_id)
  /\ LET body == [ ReqIdle EXCEPT !.user_id = user_id, !.prompt = prompt,
                                  !.mode_in = mode_in ]
     IN  IF PromptRejected(prompt)
         THEN req' = [ req EXCEPT ![r] = [ body EXCEPT !.pc = "return", !.http = 400 ] ]
         ELSE req' = [ req EXCEPT ![r] = [ body EXCEPT !.pc = "resolve" ] ]
  /\ UNCHANGED << jobs, last_image, queue, next_id, wk, trail, push_order, pop_order, last_done >>

\* The decision an outcome of the external call carries: a "mode" that is NEW
\* or EDIT once trimmed and case-folded, or none.
Decision(outcome) ==
  IF outcome.kind = "json" /\ Lower(Strip(outcome.mode_val)) = << "n","e","w" >>
  THEN Some("NEW")
  ELSE IF outcome.kind = "json" /\ Lower(Strip(outcome.mode_val)) = << "e","d","i","t" >>
  THEN Some("EDIT")
  ELSE None

\* Mutant of ModeGiven: the request's mode is never looked at.
ModeGiven_Never(mode_in) == FALSE

\* Line 35: req.mode is not None
ModeGiven(mode_in) == mode_in # None

\* Mutant of NoLastImage: the classifier is asked whatever the lookup gave.
NoLastImage_Never(last_img) == FALSE

\* Line 41: not last_img
NoLastImage(last_img) == last_img = None

\* Lines 35-42: the explicit mode, or the lookup of last_image:{user_id}
\* that finds no image.
generate_resolve(r) ==
  /\ req[r].pc = "resolve"
  /\ IF ModeGiven(req[r].mode_in)
     THEN req' = [ req EXCEPT ![r].mode = req[r].mode_in, ![r].pc = "create" ]
     ELSE LET last_img == last_image[req[r].user_id]
          IN  /\ NoLastImage(last_img)
              /\ req' = [ req EXCEPT ![r].lookups = @ + 1,
                                     ![r].last_img = last_img,
                                     ![r].mode = Some("NEW"),
                                     ![r].pc = "create" ]
  /\ UNCHANGED << jobs, last_image, queue, next_id, wk, trail, push_order, pop_order, last_done >>

\* Lines 35-46, the other branch: the lookup of last_image:{user_id} finds
\* an image, and mode = await classifier.classify_mode(req.prompt), whose
\* external call comes to outcome.
generate_classify(r, outcome) ==
  /\ req[r].pc = "resolve"
  /\ ~ ModeGiven(req[r].mode_in)
  /\ LET last_img == last_image[req[r].user_id]
     IN  /\ ~ NoLastImage(last_img)
         /\ req' = [ req EXCEPT ![r].lookups = @ + 1,
                                ![r].last_img = last_img,
                                ![r].cls_calls = @ + 1,
                                ![r].posts = IF NoCall(req[r].prompt) THEN @ ELSE @ + 1,
                                ![r].outcome = Some(outcome),
                                ![r].decision = Decision(outcome),
                                ![r].mode = Some(classify_mode(req[r].prompt, outcome)),
                                ![r].pc = "create" ]
  /\ UNCHANGED << jobs, last_image, queue, next_id, wk, trail, push_order, pop_order, last_done >>

\* Mutant of generate_create: the entry is appended where the record should
\* have been written.
generate_create_PushFirst(r) ==
  /\ req[r].pc = "create"
  /\ next_id \in DOMAIN jobs
  /\ LET job_id == next_id
         job_data == JobData(job_id, req[r].user_id, req[r].prompt, req[r].mode[1])
     IN  /\ next_id' = next_id + 1
         /\ queue' = << job_data >> \o queue
         /\ push_order' = Append(push_order, job_id)
         /\ req' = [ req EXCEPT ![r].job_id = job_id, ![r].job_data = Some(job_data),
                                ![r].pc = "return", ![r].http = 200 ]
  /\ UNCHANGED << jobs, last_image, wk, trail, pop_order, last_done >>

\* Lines 49-66: job_id = gen_job_id(); job_data; rds.set(job:{job_id}, waiting).
generate_create(r) ==
  /\ req[r].pc = "create"
  /\ next_id \in DOMAIN jobs
  /\ LET job_id == next_id
     IN  /\ next_id' = next_id + 1
         /\ jobs' = [ jobs EXCEPT ![job_id] = Some(JobRecord("waiting", None, None)) ]
         /\ req' = [ req EXCEPT ![r].job_id = job_id,
                                ![r].job_data = Some(JobData(job_id, req[r].user_id,
                                                             req[r].prompt, req[r].mode[1])),
                                ![r].pc = "lpush" ]
  /\ UNCHANGED << last_image, queue, wk, trail, push_order, pop_order, last_done >>

\* Mutant of generate_lpush: the entry is appended twice.
generate_lpush_Twice(r) ==
  /\ req[r].pc = "lpush"
  /\ queue' = << req[r].job_data[1], req[r].job_data[1] >> \o queue
  /\ push_order' = Append(push_order, req[r].job_id)
  /\ req' = [ req EXCEPT ![r].pc = "return", ![r].http = 200 ]
  /\ UNCHANGED << jobs, last_image, next_id, wk, trail, pop_order, last_done >>

\* Line 69: rds.lpush(QUEUE_KEY, json.dumps(job_data)).
generate_lpush(r) ==
  /\ req[r].pc = "lpush"
  /\ queue' = << req[r].job_data[1] >> \o queue
  /\ push_order' = Append(push_order, req[r].job_id)
  /\ req' = [ req EXCEPT ![r].pc = "return", ![r].http = 200 ]
  /\ UNCHANGED << jobs, last_image, next_id, wk, trail, pop_order, last_done >>

\* Mutant of generate_return: the call sets the record again as it returns.
generate_return_Rewrite(r) ==
  /\ req[r].pc = "return"
  /\ req' = [ req EXCEPT ![r] = ReqIdle ]
  /\ IF req[r].http = 200
     THEN jobs' = [ jobs EXCEPT ![req[r].job_id] = Some(JobRecord("waiting", None, None)) ]
     ELSE jobs' = jobs
  /\ UNCHANGED << last_image, queue, next_id, wk, trail, push_order, pop_order, last_done >>

\* Line 71 (or the 400 of line 31) has reached the client; the call is over.
generate_return(r) ==
  /\ req[r].pc = "return"
  /\ req' = [ req EXCEPT ![r] = ReqIdle ]
  /\ UNCHANGED << jobs, last_image, queue, next_id, wk, trail, push_order, pop_order, last_done >>

\* ------------------------------------------- backend/comfy_client.py: engine

\* The engine names each run's output after the run; a job is one run
\* (client_id = job_id), so the name is written with the job id.
OutName(job_id) == << "out", job_id >>
NoName == << >>

Img(filename) == [ filename |-> filename, subfolder |-> "", type |-> "output" ]

\* history[prompt_id] as the engine may report it for a run: the "outputs"
\* map, in its order, each node output with its "images" list.
HistoryItems(job_id) ==
  { [ outputs |-> << >> ],
    [ outputs |-> << [ images |-> << Img(NoName) >> ] >> ],
    [ outputs |-> << [ images |-> << >> ], [ images |-> << Img(OutName(job_id)) >> ] >> ],
    [ outputs |-> << [ images |-> << Img(NoName) >> ],
                     [ images |-> << Img(OutName(job_id)), Img(NoName) >> ] >> ] }

\* extract_first_image_from_history: the scan of outputs.items().
RECURSIVE ScanOutputs(_)
ScanOutputs(outputs) ==
  IF outputs = << >> THEN None
  ELSE LET images == Head(outputs).images
       IN  IF images = << >> THEN ScanOutputs(Tail(outputs))
           ELSE IF images[1].filename # NoName
                THEN Some(<< images[1].filename, images[1].subfolder, images[1].type >>)
                ELSE ScanOutputs(Tail(outputs))

\* Mutant of extract_first_image_from_history: the first image of the first
\* node that has images is returned, its filename unchecked.
extract_first_image_Unchecked(history_item) ==
  LET outputs == history_item.outputs
      with    == { i \in 1..Len(outputs) : outputs[i].images # << >> }
  IN  IF with = { } THEN None
      ELSE LET i   == CHOOSE n \in with : \A m \in with : n <= m
               img == outputs[i].images[1]
           IN  Some(<< img.filename, img.subfolder, img.type >>)

extract_first_image_from_history(history_item) == ScanOutputs(history_item.outputs)

\* build_image_url: {base}/view?filename=..&subfolder=..&type=..
build_image_url(filename, subfolder, img_type) ==
  [ filename |-> filename, subfolder |-> subfolder, type |-> img_type ]

\* copy_image_for_edit returns the name it saved under: the URL's filename.
StagedName(image_url) == image_url.filename

\* What one GET /history/{prompt_id} of wait_for_result can come to.
PollAnswers(job_id) ==
  { [ kind |-> k, item |-> [ outputs |-> << >> ] ] : k \in { "not_yet", "exception" } }
  \cup { [ kind |-> "history", item |-> h ] : h \in HistoryItems(job_id) }

\* str(e) of an exception process_job catches: some text, never None.
ErrText == "str(e)"

\* ---------------------------------------------------- backend/worker.py

JobOf(w) == wk[w].job_data[1]

\* Mutant of PopEnd: the entry is taken from the left end (LPOP).
PopEnd_Left(q) == 1

\* BRPOP takes the entry at the right end of the list.
PopEnd(q) == Len(q)

\* Mutant of Without: the entry is read and stays in the list.
Without_Kept(q, i) == q

\* The list once BRPOP has removed entry i.
Without(q, i) == SubSeq(q, 1, i - 1) \o SubSeq(q, i + 1, Len(q))

\* The tasks in the order main creates them (line 142).
Rank(w) == IndexIn(w, << "w1", "w2" >>)

\* The tasks blocked in BRPOP.  They run the same code and hold nothing, so
\* which of them the store serves changes nothing but the task's name: the
\* first of them takes the entry.
Blocked == { v \in Workers : wk[v].pc = "brpop" }
Served(w) == w \in Blocked /\ \A v \in Blocked : Rank(w) <= Rank(v)

\* Lines 128-135: _, job_json = await rds.brpop(QUEUE_KEY); json.loads.
worker_loop_brpop(w) ==
  /\ Served(w)
  /\ queue # << >>
  /\ LET job_data == queue[PopEnd(queue)]
     IN  /\ queue' = Without(queue, PopEnd(queue))
         /\ wk' = [ wk EXCEPT ![w] = [ WkIdle EXCEPT !.pc = "set_processing",
                                                     !.job_data = Some(job_data),
                                                     !.queued = Len(queue) ] ]
         /\ pop_order' = Append(pop_order, job_data.job_id)
         /\ trail' = [ trail EXCEPT ![job_data.job_id].pops = @ + 1 ]
  /\ UNCHANGED << jobs, last_image, next_id, req, push_order, last_done >>

\* One rds.set of job:{job_id}, counted.
WriteJob(job_id, record) ==
  /\ jobs' = [ jobs EXCEPT ![job_id] = Some(record) ]
  /\ trail' = [ trail EXCEPT ![job_id].writes = @ + 1 ]

\* Lines 38-42: status -> processing.
process_job_set_processing(w) ==
  /\ wk[w].pc = "set_processing"
  /\ WriteJob(JobOf(w).job_id, JobRecord("processing", None, None))
  /\ wk' = [ wk EXCEPT ![w].pc = "run", ![w].queued = 0 ]
  /\ UNCHANGED << last_image, queue, next_id, req, push_order, pop_order, last_done >>

\* Line 107: an exception of the try block is caught.  Of the locals, the
\* except clause reads job_id and e only.
Caught(w) == [ WkIdle EXCEPT !.pc = "set_error", !.job_data = wk[w].job_data,
                             !.err = Some(ErrText) ]

\* What lines 44-77 can come to: the workflow cannot be built, the read of
\* last_image:{user_id} raises, the image cannot be staged, the engine
\* refuses the workflow, or a prompt_id.
RunOutcomes ==
  { "build_failed", "read_failed", "stage_failed", "send_failed", "prompt_id" }

\* Mutant of process_job_run: an EDIT-mode job that finds no image fails.
process_job_run_NoImageFails(w, outcome) ==
  /\ wk[w].pc = "run"
  /\ LET reading  == JobOf(w).mode # "NEW"
         last_img == IF reading /\ outcome # "read_failed"
                     THEN last_image[JobOf(w).user_id] ELSE None
         editing  == last_img # None
         staged   == IF editing /\ outcome # "stage_failed"
                     THEN Some(StagedName(last_img[1])) ELSE None
         failed   == \/ outcome \in { "build_failed", "send_failed" }
                     \/ reading /\ ~ editing
                     \/ editing /\ outcome = "stage_failed"
     IN  IF failed
         THEN wk' = [ wk EXCEPT ![w] = Caught(w) ]
         ELSE wk' = [ wk EXCEPT ![w].last_img = last_img,
                                ![w].staged = staged,
                                ![w].pc = "wait" ]
  /\ UNCHANGED << jobs, last_image, queue, next_id, req, trail, push_order, pop_order, last_done >>

\* Lines 44-77: the workflow of the NEW path, or the read of
\* last_image:{user_id} and, with an image there, copy_image_for_edit and the
\* workflow of the EDIT path; then send_workflow_to_comfy.
process_job_run(w, outcome) ==
  /\ wk[w].pc = "run"
  /\ LET reading  == JobOf(w).mode # "NEW"
         last_img == IF reading /\ outcome # "read_failed"
                     THEN last_image[JobOf(w).user_id] ELSE None
         editing  == last_img # None
         staged   == IF editing /\ outcome # "stage_failed"
                     THEN Some(StagedName(last_img[1])) ELSE None
         failed   == \/ outcome \in { "build_failed", "send_failed" }
                     \/ reading /\ outcome = "read_failed"
                     \/ editing /\ outcome = "stage_failed"
     IN  IF failed
         THEN wk' = [ wk EXCEPT ![w] = Caught(w) ]
         ELSE wk' = [ wk EXCEPT ![w].last_img = last_img,
                                ![w].staged = staged,
                                ![w].pc = "wait" ]
  /\ UNCHANGED << jobs, last_image, queue, next_id, req, trail, push_order, pop_order, last_done >>

\* The answers the engine may give to the poll of worker w's run.
EngineAnswers(w) ==
  IF wk[w].pc = "wait" THEN PollAnswers(JobOf(w).job_id) ELSE { }

\* Mutant of process_job_poll: when the poll raises, the workflow is sent
\* again.
process_job_poll_Resubmit(w, answer) ==
  /\ wk[w].pc = "wait"
  /\ IF answer.kind = "not_yet" THEN wk' = wk
     ELSE IF answer.kind = "exception"
     THEN wk' = [ wk EXCEPT ![w].pc = "run" ]
     ELSE LET img_info == extract_first_image_from_history(answer.item)
          IN  IF img_info = None
              THEN wk' = [ wk EXCEPT ![w] = Caught(w) ]
              ELSE wk' = [ wk EXCEPT ![w].pc = "set_last_image",
                                     ![w].image_url =
                                        Some(build_image_url(img_info[1][1], img_info[1][2],
                                                             img_info[1][3])) ]
  /\ UNCHANGED << jobs, last_image, queue, next_id, req, trail, push_order, pop_order, last_done >>

\* Lines 81-89: one round of wait_for_result's loop; on a reported run, the
\* extraction of the first image and the URL built from it.
process_job_poll(w, answer) ==
  /\ wk[w].pc = "wait"
  /\ IF answer.kind = "not_yet" THEN wk' = wk
     ELSE IF answer.kind = "exception"
     THEN wk' = [ wk EXCEPT ![w] = Caught(w) ]
     ELSE LET img_info == extract_first_image_from_history(answer.item)
          IN  IF img_info = None
              THEN wk' = [ wk EXCEPT ![w] = Caught(w) ]
              ELSE wk' = [ wk EXCEPT ![w].pc = "set_last_image",
                                     ![w].image_url =
                                        Some(build_image_url(img_info[1][1], img_info[1][2],
                                                             img_info[1][3])) ]
  /\ UNCHANGED << jobs, last_image, queue, next_id, req, trail, push_order, pop_order, last_done >>

\* Line 92: rds.set(last_image:{user_id}, image_url).
process_job_set_last_image(w) ==
  /\ wk[w].pc = "set_last_image"
  /\ last_image' = [ last_image EXCEPT ![JobOf(w).user_id] = wk[w].image_url ]
  /\ trail' = [ trail EXCEPT ![JobOf(w).job_id].ptr = @ + 1 ]
  /\ wk' = [ wk EXCEPT ![w].pc = "set_done" ]
  /\ UNCHANGED << jobs, queue, next_id, req, push_order, pop_order, last_done >>

\* Mutant of DoneRecord: the record of a finished job carries a message too.
DoneRecord_Message(image_url) == JobRecord("done", image_url, Some("ok"))

\* Lines 97-103: the record of a finished job.
DoneRecord(image_url) == JobRecord("done", image_url, None)

\* Lines 95-105: status -> done, and back to the blocking pop.
process_job_set_done(w) ==
  /\ wk[w].pc = "set_done"
  /\ WriteJob(JobOf(w).job_id, DoneRecord(wk[w].image_url))
  /\ last_done' = [ last_done EXCEPT ![JobOf(w).user_id] = wk[w].image_url ]
  /\ wk' = [ wk EXCEPT ![w] = WkIdle ]
  /\ UNCHANGED << last_image, queue, next_id, req, push_order, pop_order >>

\* Mutant of process_job_set_error: a failed job is put back for another try.
process_job_set_error_Retry(w) ==
  /\ wk[w].pc = "set_error"
  /\ WriteJob(JobOf(w).job_id, JobRecord("waiting", None, None))
  /\ queue' = << JobOf(w) >> \o queue
  /\ wk' = [ wk EXCEPT ![w] = WkIdle ]
  /\ UNCHANGED << last_image, next_id, req, push_order, pop_order, last_done >>

\* Lines 107-121: status -> error with str(e), and back to the blocking pop.
process_job_set_error(w) ==
  /\ wk[w].pc = "set_error"
  /\ WriteJob(JobOf(w).job_id, JobRecord("error", None, wk[w].err))
  /\ wk' = [ wk EXCEPT ![w] = WkIdle ]
  /\ UNCHANGED << last_image, queue, next_id, req, push_order, pop_order, last_done >>

\* Lines 92 and 95-104, when the State Store fails the call: the rds.set
\* raises inside the try, and line 107 catches it.
process_job_set_raises(w) ==
  /\ wk[w].pc \in { "set_last_image", "set_done" }
  /\ wk' = [ wk EXCEPT ![w] = Caught(w) ]
  /\ UNCHANGED << jobs, last_image, queue, next_id, req, trail, push_order, pop_order, last_done >>

\* A worker_loop task that has ended.
WkEnded == [ WkIdle EXCEPT !.pc = "ended" ]

\* Mutant of worker_loop_raises: the failing task puts its entry back on the
\* list and ends alone.
worker_loop_raises_Requeue(w) ==
  /\ wk[w].pc \in { "set_processing", "set_error" }
  /\ queue' = << JobOf(w) >> \o queue
  /\ wk' = [ wk EXCEPT ![w] = WkEnded ]
  /\ UNCHANGED << jobs, last_image, next_id, req, trail, push_order, pop_order, last_done >>

\* Lines 39-42 and 112-121, when the State Store fails the call: the rds.set
\* is outside the try, or inside the except clause, so the exception leaves
\* process_job and, line 138, worker_loop.  Lines 141-149: gather hands the
\* exception to main, and asyncio.run cancels the tasks still running, which
\* end where they wait (CancelledError is not an Exception: line 107 lets
\* it through).
worker_loop_raises(w) ==
  /\ wk[w].pc \in { "set_processing", "set_error" }
  /\ wk' = [ v \in Workers |-> WkEnded ]
  /\ UNCHANGED << jobs, last_image, queue, next_id, req, trail, push_order, pop_order, last_done >>

\* ----------------------------------------------- backend/app.py: get_result

\* The ids looked up: one that generate() hands out, one that it never does.
LookupIds == { 1, MaxJobs + 1 }

\* Mutant of GetJob: an id with no record reads as a fresh record.
GetJob_Default(job_id) ==
  IF job_id \in DOMAIN jobs /\ jobs[job_id] # None THEN jobs[job_id]
  ELSE Some(JobRecord("waiting", None, None))

\* rds.get(job:{job_id})
GetJob(job_id) == IF job_id \in DOMAIN jobs THEN jobs[job_id] ELSE None

\* Lines 80-95: what the call answers in the current state.
JobResult(job_id) ==
  LET data == GetJob(job_id)
  IN  IF data = None
      THEN [ job_id |-> job_id, code |-> 404, status |-> "",
             image_url |-> None, error_message |-> None ]
      ELSE [ job_id |-> job_id, code |-> 200, status |-> data[1].status,
             image_url |-> data[1].image_url,
             error_message |-> data[1].error_message ]

\* Lines 79-95: one read of the store, an answer to the client, no write.
get_result(job_id) ==
  /\ JobResult(job_id).code \in { 200, 404 }
  /\ UNCHANGED vars

\* ------------------------------------------------------------ specification

Next ==
  \/ \E r \in Requests, u \in Users, p \in Prompts, m \in RequestModes :
       generate_receive(r, u, p, m)
  \/ \E r \in Requests : generate_resolve(r)
  \/ \E r \in Requests, o \in ClassifierOutcomes : generate_classify(r, o)
  \/ \E r \in Requests : generate_create(r)
  \/ \E r \in Requests : generate_lpush(r)
  \/ \E r \in Requests : generate_return(r)
  \/ \E w \in Workers : worker_loop_brpop(w)
  \/ \E w \in Workers : process_job_set_processing(w)
  \/ \E w \in Workers, o \in RunOutcomes : process_job_run(w, o)
  \/ \E w \in Workers : \E answer \in EngineAnswers(w) : process_job_poll(w, answer)
  \/ \E w \in Workers : process_job_set_last_image(w)
  \/ \E w \in Workers : process_job_set_done(w)
  \/ \E w \in Workers : process_job_set_error(w)
  \/ \E w \in Workers : process_job_set_raises(w)
  \/ \E w \in Workers : worker_loop_raises(w)
  \/ \E job_id \in LookupIds : get_result(job_id)

Spec == Init /\ [][Next]_vars

\* ------------------------------------------------------- with scheduling

\* The steps of task w that depend on the task being run and on the State
\* Store answering.  The round of wait_for_result's loop is not among them:
\* what it finds is the engine's, and nothing obliges the engine to report
\* a run.
WorkerStep(w) ==
  \/ worker_loop_brpop(w)
  \/ process_job_set_processing(w)
  \/ \E o \in RunOutcomes : process_job_run(w, o)
  \/ process_job_set_last_image(w)
  \/ process_job_set_done(w)
  \/ process_job_set_error(w)

\* The event loop runs every task that can go on (asyncio runs the ready
\* tasks in turn).
FairSpec == Spec /\ \A w \in Workers : WF_vars(WorkerStep(w))

\* ------------------------------------------- the classifier, called alone

P_RemoveHat == << "r", "e", "m", "o", "v", "e", " ", "t", "h", "e", " ", "h", "a", "t" >>
P_CatMoon   == << "a", " ", "c", "a", "t", " ", "o", "n", " ", "t", "h", "e", " ", "m", "o", "o", "n" >>
P_Xoa       == << "x", "U+00F3", "a", " ", "n", "U+1EC1", "n" >>
P_Sua       == << "s", "U+1EED", "a", " ", "U+1EA3", "n", "h" >>
P_Erase     == << "E", "R", "A", "S", "E" >>
P_Add       == << "a", "d", "d" >>
P_AddDog    == << "A", "d", "d", " ", "a", " ", "d", "o", "g" >>
P_Credit    == << "c", "r", "e", "d", "i", "t" >>
P_MakeHer   == << "m", "a", "k", "e", " ", "h", "e", "r", " ", "s", "m", "i", "l", "e" >>
P_Chinh     == << "c", "h", "U+1EC9", "n", "h" >>
P_Dog       == << "a", " ", "d", "o", "g" >>

\* The prompts the classifier and its fallback rule are called with.
CallPrompts ==
  Prompts \cup { P_RemoveHat, P_CatMoon, P_Xoa, P_Sua, P_Erase, P_Add,
                 P_AddDog, P_Credit, P_MakeHer, P_Chinh, P_Dog }

\* A call is about to be made with one of the prompts; nothing else runs.
CallInit ==
  /\ jobs = [ j \in JobIds |-> None ]
  /\ last_image = [ u \in Users |-> None ]
  /\ queue = <<>>
  /\ next_id = 1
  /\ req \in [ Requests -> { [ ReqIdle EXCEPT !.pc = "call", !.prompt = p ] :
                               p \in CallPrompts } ]
  /\ wk = [ w \in Workers |-> WkIdle ]
  /\ trail = [ j \in JobIds |-> TrailNone ]
  /\ push_order = <<>>
  /\ pop_order = <<>>
  /\ last_done = [ u \in Users |-> None ]

\* await classifier.classify_mode(prompt), the external call coming to
\* outcome when it is made (utils.py lines 31-114).
classify_mode_call(r, outcome) ==
  /\ req[r].pc = "call"
  /\ LET prompt == req[r].prompt
     IN  req' = [ req EXCEPT
                    ![r].pc = "classified",
                    ![r].cls_calls = @ + 1,
                    ![r].posts = IF NoCall(prompt) THEN @ ELSE @ + 1,
                    ![r].outcome = IF NoCall(prompt) THEN None ELSE Some(outcome),
                    ![r].decision = IF NoCall(prompt) THEN None ELSE Decision(outcome),
                    ![r].mode = Some(classify_mode(prompt, outcome)) ]
  /\ UNCHANGED << jobs, last_image, queue, next_id, wk, trail, push_order, pop_order,
                  last_done >>

\* OllamaModeClassifier._fallback_rule(prompt) (utils.py lines 117-144).
_fallback_rule_call(r) ==
  /\ req[r].pc = "call"
  /\ req' = [ req EXCEPT ![r].pc = "fell_back",
                         ![r].mode = Some(_fallback_rule(req[r].prompt)) ]
  /\ UNCHANGED << jobs, last_image, queue, next_id, wk, trail, push_order, pop_order,
                  last_done >>

CallNext ==
  \/ \E r \in Requests, o \in ClassifierOutcomes : classify_mode_call(r, o)
  \/ \E r \in Requests : _fallback_rule_call(r)

CallSpec == CallInit /\ [][CallNext]_vars

\* ------------------------------------------- one user who edits, a job more

\* Number of job ids handed out in a run of EditSpec.
MaxEditJobs == 3

EditInit == InitOf(1..MaxEditJobs)

\* The program as in Next, with every request one of user u1 with an edit
\* prompt.
EditNext ==
  \/ \E r \in Requests, m \in RequestModes : generate_receive(r, "u1", P_Fix, m)
  \/ \E r \in Requests : generate_resolve(r)
  \/ \E r \in Requests, o \in ClassifierOutcomes : generate_classify(r, o)
  \/ \E r \in Requests : generate_create(r)
  \/ \E r \in Requests : generate_lpush(r)
  \/ \E r \in Requests : generate_return(r)
  \/ \E w \in Workers : worker_loop_brpop(w)
  \/ \E w \in Workers : process_job_set_processing(w)
  \/ \E w \in Workers, o \in RunOutcomes : process_job_run(w, o)
  \/ \E w \in Workers : \E answer \in EngineAnswers(w) : process_job_poll(w, answer)
  \/ \E w \in Workers : process_job_set_last_image(w)
  \/ \E w \in Workers : process_job_set_done(w)
  \/ \E w \in Workers : process_job_set_error(w)
  \/ \E w \in Workers : process_job_set_raises(w)
  \/ \E w \in Workers : worker_loop_raises(w)
  \/ \E job_id \in LookupIds : get_result(job_id)

EditSpec == EditInit /\ [][EditNext]_vars

\* --------------------------------------------------------------- properties

Created == { j \in JobIds : jobs[j] # None }
Rec(j) == jobs[j][1]
StatusOf(j) == IF jobs[j] = None THEN "absent" ELSE Rec(j).status

Holds(w, j) == wk[w].job_data # None /\ JobOf(w).job_id = j
Holders(j) == { w \in Workers : Holds(w, j) }
PlacesInQueue(j) == { i \in 1..Len(queue) : queue[i].job_id = j }
Appended == Range(push_order)

\* A prompt that is empty or made of whitespace only.
Blank(p) == \A i \in 1..Len(p) : p[i] \in Whitespace

\* C1: in every reachable state and for every job record, image_url and
\* error_message are never both set, both are null while the status is
\* waiting or processing, image_url is set exactly when the status is done
\* and error_message exactly when it is error.
C1_RecordFields ==
  \A j \in Created :
    /\ ~ (Rec(j).image_url # None /\ Rec(j).error_message # None)
    /\ Rec(j).status \in { "waiting", "processing" }
         => Rec(j).image_url = None /\ Rec(j).error_message = None
    /\ Rec(j).image_url # None <=> Rec(j).status = "done"
    /\ Rec(j).error_message # None <=> Rec(j).status = "error"

\* C1 witness: one job has ended done and another has ended error.
C1_Witness ==
  \E j, k \in Created : Rec(j).status = "done" /\ Rec(k).status = "error"

\* C2: a record is created at waiting and its status moves only along
\* waiting -> processing -> (done | error); it is written twice after its
\* creation, once per move; a record that is done or error never changes
\* again, and no record is ever deleted.
C2_Moves(j) ==
  \/ jobs'[j] = jobs[j]
  \/ jobs[j] = None /\ jobs'[j] = Some(JobRecord("waiting", None, None))
  \/ /\ jobs[j] # None /\ jobs'[j] # None
     /\ \/ Rec(j).status = "waiting" /\ jobs'[j][1].status = "processing"
        \/ Rec(j).status = "processing" /\ jobs'[j][1].status \in { "done", "error" }

C2_Writes(j) ==
  /\ StatusOf(j) \in { "absent", "waiting" } => trail[j].writes = 0
  /\ StatusOf(j) = "processing" => trail[j].writes = 1
  /\ StatusOf(j) \in { "done", "error" } => trail[j].writes = 2

C2_Lifecycle == [][ \A j \in JobIds : C2_Moves(j) /\ C2_Writes(j)' ]_vars

\* C2 witness: every job id has been used and every record has ended,
\* written twice.
C2_Witness ==
  \A j \in JobIds : StatusOf(j) \in { "done", "error" } /\ trail[j].writes = 2

\* C3: with the workers popping the same list, every appended entry is
\* handed to one worker and popped once: an appended job is either still in
\* the list, once, and unpopped, or out of it and popped once; no job is
\* with two workers.
C3_PoppedOnce ==
  /\ \A j \in JobIds :
       /\ Cardinality(PlacesInQueue(j)) <= 1
       /\ Cardinality(Holders(j)) <= 1
       /\ trail[j].pops <= 1
       /\ Holders(j) # { } => trail[j].pops = 1
       /\ PlacesInQueue(j) # { } => j \in Appended /\ trail[j].pops = 0
       /\ j \in Appended /\ PlacesInQueue(j) = { } => trail[j].pops = 1
       /\ j \notin Appended => trail[j].pops = 0
  /\ Len(push_order) = Cardinality(Appended)

\* C3 witness: two workers are at work at once, each on a job of its own.
C3_Witness ==
  \E w, v \in Workers :
    /\ w # v
    /\ wk[w].job_data # None /\ wk[v].job_data # None
    /\ JobOf(w).job_id # JobOf(v).job_id

\* C4: once a record exists, a step that changes it is a step of the worker
\* that popped the job's entry, the only one to have popped it: no other
\* worker moves in that step, and no generate() call.
C4_SingleWriter ==
  [][ \A j \in JobIds :
        jobs[j] # None /\ jobs'[j] # jobs[j]
          => /\ trail[j].pops = 1
             /\ \E w \in Workers :
                  /\ Holds(w, j)
                  /\ wk'[w] # wk[w]
                  /\ \A v \in Workers \ { w } : wk'[v] = wk[v]
             /\ req' = req ]_vars

\* C4 witness: a job has ended, written by the worker that popped it, while
\* the generate() call that made it has not returned yet and the other
\* worker is busy with another job.
C4_Witness ==
  \E r \in Requests, v \in Workers :
    /\ req[r].pc = "return" /\ req[r].http = 200
    /\ StatusOf(req[r].job_id) \in { "done", "error" }
    /\ wk[v].pc = "wait"
    /\ StatusOf(JobOf(v).job_id) = "processing"

\* C5: whenever an entry for a job is in the list or has been popped, the
\* job's record exists: generate() writes the record before it appends the
\* entry.
C5_RecordBeforeEntry ==
  /\ \A i \in 1..Len(queue) :
       queue[i].job_id \in JobIds /\ jobs[queue[i].job_id] # None
  /\ \A w \in Workers :
       wk[w].job_data # None => jobs[JobOf(w).job_id] # None
  /\ \A j \in JobIds : trail[j].pops > 0 \/ j \in Appended => jobs[j] # None

\* C5 witness: a worker has popped an entry and has not yet written to its
\* record, while another entry is in the list.
C5_Witness ==
  /\ \E w \in Workers : wk[w].pc = "set_processing"
  /\ queue # << >>

\* C6: the list is first in, first out: the jobs popped so far are the
\* first jobs appended, in the order they were appended, and the list holds
\* the others, the oldest at the end BRPOP takes from.
C6_Fifo ==
  /\ Len(pop_order) <= Len(push_order)
  /\ pop_order = SubSeq(push_order, 1, Len(pop_order))
  /\ Len(queue) = Len(push_order) - Len(pop_order)
  /\ \A i \in 1..Len(queue) :
       queue[Len(queue) + 1 - i].job_id = push_order[Len(pop_order) + i]

\* C6 witness: a worker popped an entry while two were in the list.
C6_Witness ==
  \E w \in Workers :
    wk[w].pc = "set_processing" /\ wk[w].queued >= 2 /\ queue # << >>

\* Steps of generate() call r.
Moves(r) == req'[r] # req[r]
StoresUnchanged == UNCHANGED << jobs, last_image, queue, next_id, push_order >>

\* C7: a generate() call with an empty or whitespace-only prompt ends with
\* 400 and changes nothing: no record, no entry, no lookup, no call of the
\* classifier.
C7_BlankRejected ==
  [][ \A r \in Requests :
        /\ Moves(r) /\ req[r].pc = "idle" /\ Blank(req'[r].prompt)
             => /\ req'[r].pc = "return" /\ req'[r].http = 400
                /\ req'[r].job_id = 0 /\ req'[r].job_data = None
                /\ req'[r].lookups = 0 /\ req'[r].cls_calls = 0
                /\ StoresUnchanged
        /\ Moves(r) /\ req[r].pc # "idle" /\ Blank(req[r].prompt)
             => /\ req[r].pc = "return" /\ req[r].http = 400
                /\ req'[r] = ReqIdle
                /\ StoresUnchanged ]_vars

\* C7 witness: a call with a whitespace-only prompt, not the empty one, has
\* been answered 400 while the store holds a job.
C7_Witness ==
  \E r \in Requests :
    /\ req[r].pc = "return" /\ req[r].http = 400
    /\ req[r].prompt # << >>
    /\ Created # { }

\* The entries of job j that are in the list or with a worker.
Entries(j) ==
  { queue[i] : i \in PlacesInQueue(j) } \cup { JobOf(w) : w \in Holders(j) }

\* Call r has resolved its mode; call r has appended its entry.
Resolved(r) == req[r].pc \in { "create", "lpush" } \/ req[r].http = 200
Appended200(r) == req[r].pc = "return" /\ req[r].http = 200

\* The entry call r builds is the one it resolved, and the entry appended
\* for its job is that entry.
EntryIs(r, mode) ==
  /\ req[r].mode = Some(mode)
  /\ req[r].job_data # None => req[r].job_data[1].mode = mode
  /\ \A e \in Entries(req[r].job_id) : e = req[r].job_data[1] /\ e.mode = mode

\* C8: when generate() is called with a mode, the entry it appends carries
\* that mode, and the call makes no lookup of the Last-Image Pointer and no
\* call of the classifier, whatever the prompt and the pointer.
C8_ExplicitMode ==
  \A r \in Requests :
    Resolved(r) /\ req[r].mode_in # None
      => /\ EntryIs(r, req[r].mode_in[1])
         /\ req[r].lookups = 0
         /\ req[r].cls_calls = 0

\* C8 witness: a call with mode NEW, an edit keyword in its prompt and an
\* image of its user to edit has appended its entry, which is in the list.
C8_Witness ==
  \E r \in Requests :
    /\ Appended200(r)
    /\ req[r].mode_in = Some("NEW")
    /\ _fallback_rule(req[r].prompt) = "EDIT"
    /\ last_image[req[r].user_id] # None
    /\ PlacesInQueue(req[r].job_id) # { }

\* C9, as stated: a call by a user with no Last-Image Pointer (pointers are
\* never removed, so none at intake time either) resolves to NEW.
C9_Original ==
  \A r \in Requests :
    Resolved(r) /\ last_image[req[r].user_id] = None
      => req[r].mode = Some("NEW")

\* C9, amended: a call without a mode by a user with no Last-Image Pointer
\* when it is looked up resolves to NEW, whatever the prompt.
C9_NoPointerNoMode ==
  \A r \in Requests :
    Resolved(r) /\ req[r].mode_in = None /\ req[r].last_img = None
      => EntryIs(r, "NEW")

\* C9 witness: a call without a mode, with an edit keyword in its prompt, by
\* a user with no pointer, has appended an entry with mode NEW.
C9_Witness ==
  \E r \in Requests :
    /\ Appended200(r)
    /\ req[r].mode_in = None
    /\ _fallback_rule(req[r].prompt) = "EDIT"
    /\ req[r].last_img = None /\ req[r].lookups = 1
    /\ \E e \in Entries(req[r].job_id) : e.mode = "NEW"

\* C10: a call without a mode looks the pointer up once; with no pointer
\* there, its entry's mode is NEW and the classifier is not called; with a
\* pointer there, the classifier is called once and the entry's mode is the
\* decision its response carried or, without one, the fallback rule's value.
C10_AutoMode ==
  \A r \in Requests :
    Resolved(r) /\ req[r].mode_in = None
      => /\ req[r].lookups = 1
         /\ req[r].last_img = None
              => EntryIs(r, "NEW") /\ req[r].cls_calls = 0
         /\ req[r].last_img # None
              => /\ req[r].cls_calls = 1
                 /\ req[r].decision # None => EntryIs(r, req[r].decision[1])
                 /\ req[r].decision = None
                      => EntryIs(r, _fallback_rule(req[r].prompt))

\* C10 witness: the classifier's decision went against the fallback rule and
\* is the mode of the entry appended.
C10_Witness ==
  \E r \in Requests :
    /\ Appended200(r)
    /\ req[r].mode_in = None
    /\ req[r].last_img # None /\ req[r].cls_calls = 1
    /\ req[r].decision = Some("EDIT")
    /\ _fallback_rule(req[r].prompt) = "NEW"
    /\ \E e \in Entries(req[r].job_id) : e.mode = "EDIT"

\* C11, as stated: a job that has ended with status error has written no
\* last_image key.
C11_Original ==
  \A j \in JobIds : StatusOf(j) = "error" => trail[j].ptr = 0

\* C12, as stated: once a job of user U has reached done with image X and
\* no other job of U has reached done since, an EDIT-mode job of U that a
\* worker takes through lines 45-77 has read X from last_image:U and has
\* staged X.
C12_Original ==
  [][ \A w \in Workers :
        /\ wk[w].pc = "run" /\ wk'[w].pc = "wait"
        /\ JobOf(w).mode = "EDIT"
        /\ last_done[JobOf(w).user_id] # None
        => /\ wk'[w].last_img = last_done[JobOf(w).user_id]
           /\ wk'[w].staged = Some(StagedName(last_done[JobOf(w).user_id][1])) ]_vars

\* C13, as stated, for the runs in which no task ends: a job whose entry a
\* worker has popped eventually has status done or error, whatever the
\* engine does.
C13_Original ==
  \A j \in JobIds :
    (trail[j].pops > 0)
      ~> (StatusOf(j) \in { "done", "error" } \/ \E w \in Workers : wk[w].pc = "ended")

\* C19, as stated: a task that is in wait_for_result eventually leaves it,
\* with the run's result or with a failure.
C19_Original ==
  \A w \in Workers : (wk[w].pc = "wait") ~> (wk[w].pc # "wait")

\* C14, as stated: no failure met while an entry is handled ends a
\* worker_loop task: in the step that follows it the task is at the blocking
\* pop again or still at work on the entry, never ended.
C14_Original ==
  [][ \A w \in Workers : wk[w].job_data # None => wk'[w].pc # "ended" ]_vars

\* The ids for which generate() has written a record so far: gen_job_id
\* hands them out in turn, each with its record.
EverCreated(id) == id \in 1..(next_id - 1)

\* C15: in every state, GET /result/{id} answers 404 exactly for the ids no
\* record was ever created for, and for every other id it answers 200 with
\* the status, image_url and error_message stored at that moment.  (The
\* call writes nothing: get_result leaves every variable unchanged.)
C15_ResultLookup ==
  \A id \in JobIds \cup LookupIds :
    /\ JobResult(id).code = 404 <=> ~ EverCreated(id)
    /\ EverCreated(id)
         => /\ JobResult(id).code = 200
            /\ JobResult(id).job_id = id
            /\ JobResult(id).status = Rec(id).status
            /\ JobResult(id).image_url = Rec(id).image_url
            /\ JobResult(id).error_message = Rec(id).error_message

\* C15 witness: the first job is done and is reported with its image, while
\* the id of the next job and an id never handed out are reported not found.
C15_Witness ==
  /\ JobResult(1).code = 200 /\ JobResult(1).status = "done"
  /\ JobResult(1).image_url # None
  /\ next_id = 2
  /\ JobResult(2).code = 404
  /\ JobResult(MaxJobs + 1).code = 404

\* The external call failed, or its response carries no usable mode.
NoDecision(outcome) ==
  \/ outcome.kind \in { "http_error", "timeout", "transport_error", "no_json",
                        "bad_json", "mode_not_str" }
  \/ outcome.kind = "json"
       /\ Lower(Strip(outcome.mode_val)) \notin { << "n","e","w" >>, << "e","d","i","t" >> }

HasEditKeyword(prompt) ==
  \E kw \in Range(edit_keywords) :
    \E i \in 1..Len(prompt) :
      /\ i + Len(kw) - 1 <= Len(prompt)
      /\ \A k \in 1..Len(kw) : LowerChar(prompt[i + k - 1]) = kw[k]

\* C18: the fallback rule answers by the prompt alone: EDIT exactly when the
\* prompt, lower-cased, holds one of the fixed edit keywords, NEW otherwise;
\* "remove the hat" gives EDIT, "a cat on the moon" and "" give NEW.
C18_FallbackRule ==
  \A r \in Requests :
    req[r].pc = "fell_back"
      => /\ req[r].mode = Some("EDIT") <=> HasEditKeyword(req[r].prompt)
         /\ req[r].mode = Some("NEW") <=> ~ HasEditKeyword(req[r].prompt)
         /\ req[r].prompt = P_RemoveHat => req[r].mode = Some("EDIT")
         /\ req[r].prompt = P_CatMoon => req[r].mode = Some("NEW")
         /\ req[r].prompt = P_Empty => req[r].mode = Some("NEW")
         /\ req[r].posts = 0 /\ req[r].outcome = None

\* C18 witness: the rule has answered EDIT for a prompt whose keyword is
\* typed in capitals.
C18_Witness ==
  \E r \in Requests :
    /\ req[r].pc = "fell_back"
    /\ req[r].prompt = P_Erase
    /\ req[r].mode = Some("EDIT")

\* The external call ran into the request timeout (utils.py lines 82, 95).
TimedOut == [ kind |-> "timeout", mode_val |-> << >> ]

\* C17: a generate() call whose classification timed out goes on: the mode
\* is the fallback rule's, the record is written with status waiting, the
\* entry appended is an entry like any other with that mode, and it is in
\* the list or popped by a worker; a call that needs the classifier is
\* never stuck on it, the timeout being one way on.
C17_TimeoutStillQueued ==
  \A r \in Requests :
    /\ Resolved(r) /\ req[r].outcome = Some(TimedOut)
         => /\ EntryIs(r, _fallback_rule(req[r].prompt))
            /\ req[r].pc = "lpush"
                 => /\ jobs[req[r].job_id] = Some(JobRecord("waiting", None, None))
                    /\ req[r].job_data
                         = Some(JobData(req[r].job_id, req[r].user_id, req[r].prompt,
                                        _fallback_rule(req[r].prompt)))
                    /\ Entries(req[r].job_id) = { }
            /\ Appended200(r)
                 => /\ req[r].job_id \in Created
                    /\ req[r].job_id \in Appended
                    /\ PlacesInQueue(req[r].job_id) # { }
                         => StatusOf(req[r].job_id) = "waiting"
                    /\ PlacesInQueue(req[r].job_id) # { }
                         \/ trail[req[r].job_id].pops = 1
    /\ req[r].pc = "resolve" /\ ~ ModeGiven(req[r].mode_in)
         /\ ~ NoLastImage(last_image[req[r].user_id])
         => ENABLED generate_classify(r, TimedOut)

\* C17 witness: the classification of a prompt with an edit keyword timed
\* out; the entry, with mode EDIT, has been popped and its job is being
\* processed.
C17_Witness ==
  \E r \in Requests, w \in Workers :
    /\ Appended200(r)
    /\ req[r].outcome = Some(TimedOut)
    /\ _fallback_rule(req[r].prompt) = "EDIT"
    /\ Holds(w, req[r].job_id)
    /\ JobOf(w).mode = "EDIT"
    /\ StatusOf(req[r].job_id) = "processing"

\* No image of the result has a filename.
NoNamedImage(item) ==
  \A i \in 1..Len(item.outputs) :
    \A k \in 1..Len(item.outputs[i].images) :
      item.outputs[i].images[k].filename = NoName

\* Task w has caught a failure of its job: it is about to write the error
\* record, and the job's record is still at processing.
Captured(w) ==
  /\ wk[w].pc = "set_error" /\ wk[w].err # None /\ wk[w].image_url = None
  /\ StatusOf(JobOf(w).job_id) = "processing"

\* C20: a workflow that cannot be built, an image that cannot be staged, a
\* workflow the engine refuses and a result with no named image are caught
\* by the task; the record the task then writes is status error with a
\* message and no image_url, and a record becomes done only with the image
\* of a result.  (The write of the error record is itself a State Store
\* call: when it fails the task ends, which is C14's case.)
C20_FailuresCaptured ==
  [][ wk' # wk \/ jobs' # jobs =>
      \A w \in Workers :
        /\ wk[w].pc = "run" /\ wk'[w] # wk[w]
             => /\ \A o \in { "build_failed", "send_failed" } :
                     process_job_run(w, o) => Captured(w)'
                /\ process_job_run(w, "stage_failed")
                     /\ JobOf(w).mode # "NEW" /\ last_image[JobOf(w).user_id] # None
                     => Captured(w)'
        /\ wk[w].pc = "wait" /\ wk'[w] # wk[w]
             => \A a \in EngineAnswers(w) :
                  a.kind = "history" /\ NoNamedImage(a.item) /\ process_job_poll(w, a)
                    => Captured(w)'
        /\ wk[w].pc = "set_error" /\ jobs'[JobOf(w).job_id] # jobs[JobOf(w).job_id]
             => /\ jobs'[JobOf(w).job_id] = Some(JobRecord("error", None, wk[w].err))
                /\ wk[w].err # None
        /\ wk[w].pc = "set_error" /\ wk'[w] # wk[w]
             => \/ jobs'[JobOf(w).job_id] # jobs[JobOf(w).job_id]
                \/ wk'[w].pc = "ended"
        /\ wk[w].job_data # None
             /\ StatusOf(JobOf(w).job_id) # "done"
             /\ jobs'[JobOf(w).job_id][1].status = "done"
             => /\ wk[w].pc = "set_done" /\ wk[w].err = None
                /\ wk[w].image_url # None
                /\ wk[w].image_url[1].filename # NoName ]_vars

\* C20 witness: a task has caught a failure of its job while another job
\* has ended with status error, a message and no image_url.
C20_Witness ==
  \E w \in Workers, j \in Created :
    /\ Captured(w)
    /\ Rec(j) = JobRecord("error", None, Some(ErrText))

\* The outcomes of lines 44-77 under which a NEW-mode job fails: only
\* build_gen_workflow and send_workflow_to_comfy are on its path.
NewPathFails(outcome) == outcome \in { "build_failed", "send_failed" }

\* C21: when a worker takes an EDIT-mode job through lines 45-77 and the
\* read of last_image:{user_id} finds no image, the step is the one a
\* NEW-mode job takes: nothing is staged, no image is held, and the job fails
\* exactly under the outcomes under which a NEW-mode job fails, so the
\* absence of the image alone never sends it to the except clause.
C21_NoPointerNewPath ==
  \A w \in Workers :
    /\ wk[w].pc = "run"
    /\ JobOf(w).mode = "EDIT"
    /\ last_image[JobOf(w).user_id] = None
    => \A o \in RunOutcomes \ { "read_failed" } :
         /\ ENABLED process_job_run(w, o)
         /\ ~ ENABLED ( /\ process_job_run(w, o)
                        /\ ~ ( /\ wk'[w].staged = None
                               /\ wk'[w].last_img = None
                               /\ wk'[w].pc = IF NewPathFails(o) THEN "set_error"
                                              ELSE "wait" ) )

\* An EDIT-mode job whose user had no image when the worker read the key
\* waits for the engine with nothing staged.
C21_Witness ==
  \E w \in Workers :
    /\ wk[w].pc = "wait"
    /\ JobOf(w).mode = "EDIT"
    /\ wk[w].last_img = None
    /\ wk[w].staged = None
    /\ StatusOf(JobOf(w).job_id) = "processing"

\* C22: no retry.  Lines 44-77, which end with the one call of
\* send_workflow_to_comfy, are begun only by the step that writes processing
\* for a job popped once and never written by a worker before, and the step
\* that runs them leaves them for the wait, the except clause or the end of
\* the task: a job's workflow is sent at most once.  A job whose record is at
\* error keeps its record, is appended to the list no more and is with no
\* worker.
C22_NoRetry ==
  [][ /\ \A w \in Workers :
           /\ wk'[w].pc = "run" /\ wk'[w] # wk[w]
                => /\ wk[w].pc = "set_processing"
                   /\ wk'[w].job_data = wk[w].job_data
                   /\ trail[JobOf(w).job_id].pops = 1
                   /\ trail[JobOf(w).job_id].writes = 0
                   /\ trail'[JobOf(w).job_id].writes = 1
           /\ wk[w].pc = "run" /\ wk'[w] # wk[w]
                => wk'[w].pc \in { "wait", "set_error", "ended" }
      /\ \A j \in JobIds :
           StatusOf(j) = "error"
             => /\ jobs'[j] = jobs[j]
                /\ trail'[j] = trail[j]
                /\ \A i \in 1..Len(queue') : queue'[i].job_id # j
                /\ \A w \in Workers :
                     wk'[w].job_data # None => wk'[w].job_data[1].job_id # j ]_vars

\* A job whose workflow was sent and answered with an image has ended in
\* error; the list is empty and every task is back at the blocking pop, the
\* job's entry popped once.
C22_Witness ==
  \E j \in JobIds :
    /\ StatusOf(j) = "error"
    /\ trail[j].ptr = 1
    /\ trail[j].pops = 1
    /\ queue = << >>
    /\ \A w \in Workers : wk[w].pc = "brpop"

\* The record of job j is at processing and the task that wrote it has
\* stopped: no task holds the job's entry.
Stopped(j) == StatusOf(j) = "processing" /\ Holders(j) = { }

\* C23: a job whose worker has stopped between the write of processing and
\* the write of a terminal status stays as it is in every later step: its
\* record is not written, its entry is not in the list, no task holds it, and
\* GET /result/{job_id} answers 200 with status processing.
C23_StuckAtProcessing ==
  [][ \A j \in JobIds :
        Stopped(j)
          => /\ PlacesInQueue(j) = { }
             /\ JobResult(j).code = 200 /\ JobResult(j).status = "processing"
             /\ jobs'[j] = jobs[j]
             /\ trail'[j] = trail[j]
             /\ \A i \in 1..Len(queue') : queue'[i].job_id # j
             /\ \A w \in Workers :
                  wk'[w].job_data # None => wk'[w].job_data[1].job_id # j
             /\ JobResult(j)' = JobResult(j) ]_vars

\* The task that wrote processing for a job has ended, a later job waits in
\* the list, and the first job's record is still at processing.
C23_Witness ==
  \E j \in JobIds :
    /\ Stopped(j)
    /\ trail[j].pops = 1 /\ trail[j].writes = 1
    /\ \A w \in Workers : wk[w].pc = "ended"
    /\ \E i \in 1..Len(queue) : queue[i].job_id # j

\* C24, as stated: in every state a user's last_image key is absent or holds
\* the image_url of a job whose record is at done.  (The job records do not
\* name their user; every job's URL is its own, so the job that carries the
\* key's URL is the one that wrote the key, with its own user_id.)
C24_Original ==
  \A u \in Users :
    \/ last_image[u] = None
    \/ \E j \in JobIds : StatusOf(j) = "done" /\ Rec(j).image_url = last_image[u]

\* C25, as stated: the step in which one worker_loop task ends with an
\* exception ends no other task: each of the others is where it was, and
\* goes on popping and handling entries.
C25_Original ==
  [][ \A w \in Workers :
        wk[w].pc \in { "set_processing", "set_error" } /\ wk'[w].pc = "ended"
          => \A v \in Workers \ { w } : wk'[v] = wk[v] ]_vars

\* Where the entry of job j can be: with the generate() call that has
\* written the record and not appended the entry, in the list, or popped by
\* a worker that has not written processing.
InSubmit(j) == \E r \in Requests : req[r].pc = "lpush" /\ req[r].job_id = j
InQueue(j)  == PlacesInQueue(j) # { }
Popped(j)   == trail[j].pops > 0 /\ trail[j].writes = 0

Ways(j) ==
  { k \in { "submit", "queue", "popped" } :
      \/ k = "submit" /\ InSubmit(j)
      \/ k = "queue"  /\ InQueue(j)
      \/ k = "popped" /\ Popped(j) }

====
